---- MODULE Spec2Model ----
(***************************************************************************)
(* A model of the semver package (src/semver.go, revision 0.3.0, lines     *)
(* 1-197; the unexported conStructor of the earlier revision kept in the   *)
(* same file, lines 263-281, is modelled beside it).                       *)
(*                                                                         *)
(* A Go string is a sequence of one-character strings, so that slicing,    *)
(* strings.Index, strings.Split, strings.Join, the byte-wise comparison of *)
(* strings and the two regular expressions are computed, not assumed.      *)
(***************************************************************************)
EXTENDS Naturals, Integers, Sequences, FiniteSets

VARIABLES check, base, pc, fault, valid, va, vb, text, bump, incr, newer, older, equiv, isnewer

vars == <<check, base, pc, fault, valid, va, vb, text, bump, incr, newer, older, equiv, isnewer>>

----------------------------------------------------------------------------
(* Characters and Go's string primitives                                   *)

NonZero == {"1", "2", "3", "4", "5", "6", "7", "8", "9"}
Digit == {"0"} \cup NonZero
Letter == {"a", "b", "c", "d", "e", "f", "g", "h", "i", "j", "k", "l", "m",
           "n", "o", "p", "q", "r", "s", "t", "u", "v", "w", "x", "y", "z",
           "A", "B", "C", "D", "E", "F", "G", "H", "I", "J", "K", "L", "M",
           "N", "O", "P", "Q", "R", "S", "T", "U", "V", "W", "X", "Y", "Z"}
LetterHyphen == Letter \cup {"-"}
AlnumHyphen == Letter \cup Digit \cup {"-"}

\* The characters of the model in increasing byte order (ASCII).
AsciiOrder ==
    <<" ", "$", "+", "-", ".",
      "0", "1", "2", "3", "4", "5", "6", "7", "8", "9",
      "A", "B", "C", "D", "E", "F", "G", "H", "I", "J", "K", "L", "M",
      "N", "O", "P", "Q", "R", "S", "T", "U", "V", "W", "X", "Y", "Z",
      "a", "b", "c", "d", "e", "f", "g", "h", "i", "j", "k", "l", "m",
      "n", "o", "p", "q", "r", "s", "t", "u", "v", "w", "x", "y", "z">>

Ord(c) == CHOOSE i \in 1..Len(AsciiOrder) : AsciiOrder[i] = c

\* Go's x < y on strings: byte-wise lexicographic, a proper prefix is smaller.
RECURSIVE StrLess(_, _)
StrLess(x, y) ==
    IF y = <<>> THEN FALSE
    ELSE IF x = <<>> THEN TRUE
    ELSE IF Head(x) # Head(y) THEN Ord(Head(x)) < Ord(Head(y))
    ELSE StrLess(Tail(x), Tail(y))

\* Go's x > y on strings.
StrGreater(x, y) == StrLess(y, x)

\* strings.Index(s, mark) for a one-character mark: 0-based, -1 when absent.
Index(s, mark) ==
    IF \E i \in 1..Len(s) : s[i] = mark
    THEN (CHOOSE i \in 1..Len(s) : s[i] = mark /\ \A j \in 1..(i - 1) : s[j] # mark) - 1
    ELSE -1

\* strings.Split(s, sep) for a one-character sep.
RECURSIVE Split(_, _)
Split(s, sep) ==
    LET i == Index(s, sep)
    IN  IF i = -1 THEN <<s>>
        ELSE <<SubSeq(s, 1, i)>> \o Split(SubSeq(s, i + 2, Len(s)), sep)

\* strings.Join(parts, sep) for a one-character sep.
RECURSIVE Join(_, _)
Join(parts, sep) ==
    IF Len(parts) = 0 THEN <<>>
    ELSE IF Len(parts) = 1 THEN parts[1]
    ELSE parts[1] \o <<sep>> \o Join(Tail(parts), sep)

----------------------------------------------------------------------------
(* The regular expressions.  A set of positions P holds the numbers of     *)
(* characters of s that some match of the pattern so far has consumed.     *)

\* one character of the class C
Step(s, P, C) == {p + 1 : p \in {q \in P : q < Len(s) /\ s[q + 1] \in C}}

\* C*
RECURSIVE StarC(_, _, _)
StarC(s, P, C) ==
    LET Q == P \cup Step(s, P, C)
    IN  IF Q = P THEN P ELSE StarC(s, Q, C)

\* C+
PlusC(s, P, C) == StarC(s, Step(s, P, C), C)

\* rxNum written as (\d+): leading zeros pass
rxNum_LeadingZeros(s, P) == PlusC(s, P, Digit)

\* (0|[1-9]\d*)
rxNum(s, P) == Step(s, P, {"0"}) \cup StarC(s, Step(s, P, NonZero), Digit)

\* rxPreIdent written as (?:[a-zA-Z0-9-]+): any identifier of the class passes
rxPreIdent_AnyAlnum(s, P) == PlusC(s, P, AlnumHyphen)

\* (?:0|[1-9]\d*|\d*[a-zA-Z-][a-zA-Z0-9-]*)
rxPreIdent(s, P) ==
    rxNum(s, P) \cup StarC(s, Step(s, StarC(s, P, Digit), LetterHyphen), AlnumHyphen)

\* (?:\.(?:0|[1-9]\d*|\d*[a-zA-Z-][a-zA-Z0-9-]*))*
RECURSIVE rxPreMore(_, _)
rxPreMore(s, P) ==
    LET Q == P \cup rxPreIdent(s, Step(s, P, {"."}))
    IN  IF Q = P THEN P ELSE rxPreMore(s, Q)

\* (?:-((?:...)(?:\.(?:...))*))?
rxPre(s, P) == P \cup rxPreMore(s, rxPreIdent(s, Step(s, P, {"-"})))

\* (?:\.[0-9A-Za-z-]+)*
RECURSIVE rxBuildMore(_, _)
rxBuildMore(s, P) ==
    LET Q == P \cup PlusC(s, Step(s, P, {"."}), AlnumHyphen)
    IN  IF Q = P THEN P ELSE rxBuildMore(s, Q)

\* (?:\+[0-9A-Za-z-]+(?:\.[0-9A-Za-z-]+)*)?
rxBuild(s, P) == P \cup rxBuildMore(s, PlusC(s, Step(s, P, {"+"}), AlnumHyphen))

\* ^(0|[1-9]\d*)\.(0|[1-9]\d*)\.(0|[1-9]\d*)
rxCore(s) == rxNum(s, Step(s, rxNum(s, Step(s, rxNum(s, {0}), {"."})), {"."}))

\* rxMatch.MatchString(s): the pattern is anchored by ^ and $ (end of text).
rxMatch(s) == Len(s) \in rxBuild(s, rxPre(s, rxCore(s)))

\* rxNumeric.MatchString(s): ^(0|[1-9])+$
rxNumeric(s) == Len(s) \in PlusC(s, {0}, {"0"} \cup NonZero)

IsValid(version) == rxMatch(version)

----------------------------------------------------------------------------
(* The SemVer 2.0.0 grammar, stated on the text itself                      *)

Slice(s, i, j) == SubSeq(s, i, j)

AllIn(s, C) == \A i \in 1..Len(s) : s[i] \in C

\* "0", or digits that do not start with "0"
NumericField(f) == Len(f) >= 1 /\ AllIn(f, Digit) /\ (f[1] = "0" => Len(f) = 1)

PreIdentifier(f) ==
    /\ Len(f) >= 1
    /\ AllIn(f, AlnumHyphen)
    /\ (AllIn(f, Digit) => NumericField(f))

BuildIdentifier(f) == Len(f) >= 1 /\ AllIn(f, AlnumHyphen)

\* the dot-free stretches of t, from dot (or start) to dot (or end)
Stretches(t) ==
    {<<p, q>> \in (1..(Len(t) + 1)) \X (0..Len(t)) :
        /\ q >= p - 1
        /\ (p = 1 \/ t[p - 1] = ".")
        /\ (q = Len(t) \/ t[q + 1] = ".")
        /\ \A k \in p..q : t[k] # "."}

PreReleaseText(t) == \A pq \in Stretches(t) : PreIdentifier(Slice(t, pq[1], pq[2]))

BuildText(t) == \A pq \in Stretches(t) : BuildIdentifier(Slice(t, pq[1], pq[2]))

CoreText(t) ==
    \E p \in 1..Len(t) : \E q \in (p + 1)..Len(t) :
        /\ t[p] = "." /\ t[q] = "."
        /\ NumericField(Slice(t, 1, p - 1))
        /\ NumericField(Slice(t, p + 1, q - 1))
        /\ NumericField(Slice(t, q + 1, Len(t)))

SemVerGrammar(s) ==
    \E i \in 0..Len(s) : \E j \in i..Len(s) :
        /\ CoreText(Slice(s, 1, i))
        /\ (i = j \/ (s[i + 1] = "-" /\ PreReleaseText(Slice(s, i + 2, j))))
        /\ (j = Len(s) \/ (s[j + 1] = "+" /\ BuildText(Slice(s, j + 2, Len(s)))))

----------------------------------------------------------------------------
(* The Semver struct and its methods                                       *)

\* type Semver struct { major, minor, patch, pre, build string }; panic marks a
\* call that ended in a run-time panic instead of returning a value.
Semver(maj, min, pat, rel, bld) ==
    [panic |-> FALSE, major |-> maj, minor |-> min, patch |-> pat, pre |-> rel, build |-> bld]

Panic == [panic |-> TRUE, major |-> <<>>, minor |-> <<>>, patch |-> <<>>, pre |-> <<>>, build |-> <<>>]

\* extractor with tail := base[i:], which keeps the mark
extractor_KeepMark(str, mark) ==
    LET i == Index(str, mark)
    IN  IF i = -1 THEN [panic |-> TRUE, lead |-> <<>>, tail |-> <<>>]
        ELSE [panic |-> FALSE, lead |-> SubSeq(str, 1, i), tail |-> SubSeq(str, i + 1, Len(str))]

\* base[:i] and base[i+1:] with i = strings.Index(base, mark); i = -1 makes
\* base[:-1] a slice bound out of range.
extractor(str, mark) ==
    LET i == Index(str, mark)
    IN  IF i = -1 THEN [panic |-> TRUE, lead |-> <<>>, tail |-> <<>>]
        ELSE [panic |-> FALSE, lead |-> SubSeq(str, 1, i), tail |-> SubSeq(str, i + 2, Len(str))]

\* The body of ConStructor after ver has its first value.
construct(version, ver0) ==
    LET hasBld == Index(version, "+") > -1
        x1 == extractor(version, "+")
        ver1 == IF hasBld THEN x1.lead ELSE ver0
        bld == IF hasBld THEN x1.tail ELSE <<>>
        hasRel == Index(ver1, "-") > -1
        x2 == extractor(ver1, "-")
        ver2 == IF hasRel THEN x2.lead ELSE ver1
        rel == IF hasRel THEN x2.tail ELSE <<>>
        x3 == extractor(ver2, ".")
        x4 == extractor(x3.tail, ".")
    IN  IF x3.panic THEN Panic
        ELSE IF x4.panic THEN Panic
        ELSE Semver(x3.lead, x4.lead, x4.tail, rel, bld)

\* ConStructor that looks for "-" in the whole version before it looks for "+"
ConStructor_HyphenFirst(version) ==
    LET hasRel == Index(version, "-") > -1
        x1 == extractor(version, "-")
        ver1 == IF hasRel THEN x1.lead ELSE version
        rel == IF hasRel THEN x1.tail ELSE <<>>
        hasBld == Index(ver1, "+") > -1
        x2 == extractor(ver1, "+")
        ver2 == IF hasBld THEN x2.lead ELSE ver1
        bld == IF hasBld THEN x2.tail ELSE <<>>
        x3 == extractor(ver2, ".")
        x4 == extractor(x3.tail, ".")
    IN  IF x3.panic THEN Panic
        ELSE IF x4.panic THEN Panic
        ELSE Semver(x3.lead, x4.lead, x4.tail, rel, bld)

\* ConStructor that never looks for the build tag
ConStructor_NoBuild(version) ==
    LET hasRel == Index(version, "-") > -1
        x2 == extractor(version, "-")
        ver2 == IF hasRel THEN x2.lead ELSE version
        rel == IF hasRel THEN x2.tail ELSE <<>>
        x3 == extractor(ver2, ".")
        x4 == extractor(x3.tail, ".")
    IN  IF x3.panic THEN Panic
        ELSE IF x4.panic THEN Panic
        ELSE Semver(x3.lead, x4.lead, x4.tail, rel, <<>>)

\* ConStructor (0.3.0): ver = version before the build tag is looked for.
ConStructor(version) == construct(version, version)

\* conStructor (0.1.0): ver keeps its zero value "" unless a "+" is found.
conStructor(version) == construct(version, <<>>)

ConvertToString(ver) ==
    LET v0 == Join(<<ver.major, ver.minor, ver.patch>>, ".")
        v1 == IF Len(ver.pre) > 0 THEN Join(<<v0, ver.pre>>, "-") ELSE v0
    IN  IF Len(ver.build) > 0 THEN Join(<<v1, ver.build>>, "+") ELSE v1

OlderThan(a, b) ==
    IF StrLess(a.major, b.major) THEN TRUE
    ELSE IF a.major = b.major /\ StrLess(a.minor, b.minor) THEN TRUE
    ELSE IF a.major = b.major /\ a.minor = b.minor /\ StrLess(a.patch, b.patch) THEN TRUE
    ELSE FALSE

\* the numeric branch without the comparison of lengths: the identifiers are
\* compared as text
numericBranch_Lexical(e, g) == IF StrGreater(e, g) THEN "true" ELSE "false"

\* the numeric branch of the loop body, entered when both identifiers match
\* rxNumeric and differ: TRUE/FALSE is the value returned, "next" falls through
numericBranch(e, g) ==
    IF Len(e) > Len(g) THEN "true"
    ELSE IF Len(e) < Len(g) THEN "false"
    ELSE IF \E k \in 1..Len(e) : e[k] # g[k]
         THEN LET k == CHOOSE k \in 1..Len(e) : e[k] # g[k] /\ \A j \in 1..(k - 1) : e[j] = g[j]
              IN  IF Ord(e[k]) > Ord(g[k]) THEN "true" ELSE "false"
         ELSE "next"

\* the loop with return false where gy has run out of identifiers
RECURSIVE edgierLoop_ShorterWins(_, _, _)
edgierLoop_ShorterWins(ed, gy, key) ==
    IF key > Len(ed) THEN FALSE
    ELSE IF Len(gy) < key THEN FALSE
    ELSE LET num == IF rxNumeric(ed[key]) /\ rxNumeric(gy[key]) /\ ed[key] # gy[key]
                    THEN numericBranch(ed[key], gy[key])
                    ELSE "next"
         IN  IF num = "true" THEN TRUE
             ELSE IF num = "false" THEN FALSE
             ELSE IF ed[key] # gy[key] THEN StrGreater(ed[key], gy[key])
             ELSE edgierLoop_ShorterWins(ed, gy, key + 1)

\* for key := range ed { ... }; return false      (key counts from 1 here)
RECURSIVE edgierLoop(_, _, _)
edgierLoop(ed, gy, key) ==
    IF key > Len(ed) THEN FALSE
    ELSE IF Len(gy) < key THEN TRUE
    ELSE LET num == IF rxNumeric(ed[key]) /\ rxNumeric(gy[key]) /\ ed[key] # gy[key]
                    THEN numericBranch(ed[key], gy[key])
                    ELSE "next"
         IN  IF num = "true" THEN TRUE
             ELSE IF num = "false" THEN FALSE
             ELSE IF ed[key] # gy[key] THEN StrGreater(ed[key], gy[key])
             ELSE edgierLoop(ed, gy, key + 1)

edgierThan(a, b) ==
    IF Len(a.pre) = 0 \/ Len(b.pre) = 0 THEN StrLess(a.pre, b.pre)
    ELSE edgierLoop(Split(a.pre, "."), Split(b.pre, "."), 1)

NewerThan(a, b) ==
    IF StrGreater(a.major, b.major) THEN TRUE
    ELSE IF a.major = b.major /\ StrGreater(a.minor, b.minor) THEN TRUE
    ELSE IF a.major = b.major /\ a.minor = b.minor /\ StrGreater(a.patch, b.patch) THEN TRUE
    ELSE IF a.major = b.major /\ a.minor = b.minor /\ a.patch = b.patch THEN edgierThan(a, b)
    ELSE FALSE

EquivalentTo(a, b) == IF OlderThan(a, b) \/ NewerThan(a, b) THEN FALSE ELSE TRUE

----------------------------------------------------------------------------
(* The public API                                                          *)

\* func Increment(version, bump string) string { return "" }
Increment(version, field) == <<>>

\* IsNewer that validates check alone
IsNewer_CheckOnly(chk, bas) ==
    IF IsValid(chk)
    THEN LET a == ConStructor(chk)
             b == ConStructor(bas)
         IN  IF a.panic \/ b.panic THEN [panic |-> TRUE, ret |-> FALSE]
             ELSE [panic |-> FALSE, ret |-> NewerThan(a, b)]
    ELSE [panic |-> FALSE, ret |-> FALSE]

\* [panic, ret]: the value returned, or a panic inside ConStructor
IsNewer(chk, bas) ==
    IF IsValid(chk) /\ IsValid(bas)
    THEN LET a == ConStructor(chk)
             b == ConStructor(bas)
         IN  IF a.panic \/ b.panic THEN [panic |-> TRUE, ret |-> FALSE]
             ELSE [panic |-> FALSE, ret |-> NewerThan(a, b)]
    ELSE [panic |-> FALSE, ret |-> FALSE]

----------------------------------------------------------------------------
(* The strings the operations are applied to                               *)

MaxLen == 5
MaxPreIds == 2
MaxBuildIds == 1
MaxCmpIds == 1

d0 == <<"0">>
d1 == <<"1">>
d2 == <<"2">>
d3 == <<"3">>
d9 == <<"9">>
d10 == <<"1", "0">>
alpha == <<"a", "l", "p", "h", "a">>
beta == <<"b", "e", "t", "a">>
exp == <<"e", "x", "p">>
sha == <<"s", "h", "a">>

Dotted(parts) == Join(parts, ".")

\* core, core-pre, core+build, core-pre+build
WithTags(core, rel, bld) ==
    core \o (IF rel = <<>> THEN <<>> ELSE <<"-">> \o rel[1])
         \o (IF bld = <<>> THEN <<>> ELSE <<"+">> \o bld[1])

\* the dotted lists of 1..n identifiers, each wrapped in a 1-tuple; <<>> is "no tag"
Tags(ids, n) ==
    {<<>>} \cup {<<Dotted(t)>> : t \in UNION {[1..k -> ids] : k \in 1..n}}

\* every string over a small alphabet, up to MaxLen characters
ShortAlphabet == {"0", "1", ".", "-", "+"}
ShortStrings == UNION {[1..n -> ShortAlphabet] : n \in 0..MaxLen}

\* versions put together from well- and ill-formed pieces
StrCores ==
    {Dotted(<<d1, d2, d3>>), Dotted(<<d10, d0, d0>>),
     Dotted(<<d1, <<"0", "2">>, d3>>), Dotted(<<d1, d2>>)}
StrPreIdents ==
    {d10, <<"0", "1">>, <<"0", "1", "a">>, <<"-">>, <<"a", "-", "b">>, <<"$">>, <<>>}
StrBuildIdents == {<<"0", "0", "1">>, <<"a", "-", "b">>, <<>>}
BuiltStrings ==
    {WithTags(c[1], c[2], c[3]) :
        c \in StrCores \X Tags(StrPreIdents, MaxPreIds) \X Tags(StrBuildIdents, MaxBuildIds)}

\* the versions of the package's tests (TestIsValid, TestValidPostfix,
\* TestConStructor, TestConvertToString, TestIncrement)
TestValid ==
    {Dotted(<<d1, d9, d0>>), Dotted(<<d0, d9, d0>>), Dotted(<<d0, d0, d0>>),
     Dotted(<<<<"4", "3", "5">>, <<"2", "4", "5", "8">>, <<"5", "1", "8", "3", "3", "4">>>>),
     WithTags(Dotted(<<d1, d0, d0>>), <<alpha>>, <<>>),
     WithTags(Dotted(<<d1, d0, d0>>), <<Dotted(<<alpha, d1>>)>>, <<>>),
     WithTags(Dotted(<<d1, d0, d0>>), <<Dotted(<<d0, d3, <<"7">>>>)>>, <<>>),
     WithTags(Dotted(<<d1, d0, d0>>), <<Dotted(<<<<"x">>, <<"7">>, <<"z">>, <<"9", "2">>>>)>>, <<>>),
     WithTags(Dotted(<<d1, d0, d0>>), <<<<"0", "1", "a">>>>, <<>>),
     WithTags(Dotted(<<d1, d0, d0>>), <<alpha>>, <<<<"0", "0", "1">>>>),
     WithTags(Dotted(<<d1, d0, d0>>), <<>>, <<<<"2", "0", "1", "3", "0", "3", "1", "3">>>>),
     WithTags(Dotted(<<d1, d0, d0>>), <<beta>>, <<Dotted(<<exp, sha, <<"5", "1", "1", "4", "f", "8", "5">>>>)>>),
     WithTags(Dotted(<<d1, d0, d0>>), <<alpha>>, <<<<"2", "0", "1", "4", "-", "0", "3">>>>),
     Dotted(<<d3, <<"6">>, d1>>),
     WithTags(Dotted(<<d1, d0, d0>>), <<Dotted(<<alpha, d3>>)>>, <<>>),
     WithTags(Dotted(<<<<"8">>, <<"7">>, d9>>), <<>>, <<Dotted(<<exp, sha, <<"1", "1", "1", "3", "3", "4">>>>)>>),
     WithTags(Dotted(<<d1, d3, d0>>), <<Dotted(<<<<"r", "c">>, d1>>)>>, <<Dotted(<<exp, sha, <<"5", "1", "1", "4", "f", "8", "5">>>>)>>),
     Dotted(<<d1, d3, d9>>), Dotted(<<d1, d3, d10>>), Dotted(<<d1, <<"4">>, d0>>)}

\* invalidVersions of TestIsValid and of TestValidPostfix
invalidVersions ==
    {Dotted(<<d1, <<"0", "9">>, d0>>), Dotted(<<d1, <<"a">>, d0>>),
     Dotted(<<d1, d2, <<"3", "b">>>>), Dotted(<<<<"a">>, d0, <<"5">>>>),
     Dotted(<<<<"5">>, <<"4">>, d2, d10>>), Dotted(<<d1, d9>>),
     Dotted(<<d1, d9, <<>>>>), Dotted(<<d1, <<>>, <<>>>>),
     Dotted(<<d1, <<"-", "9">>, d0>>), Dotted(<<<<"-", "1">>, d9, d0>>),
     Dotted(<<d1, d9, <<"-", "2", "5">>>>),
     WithTags(Dotted(<<d1, d0, d0>>), <<Dotted(<<beta, <<"$">>, <<"1", "3">>>>)>>, <<>>),
     WithTags(Dotted(<<d1, d0, d0>>), <<Dotted(<<beta, d2, <<>>, d1>>)>>, <<>>)}

TestInvalid ==
    invalidVersions \cup
    {WithTags(Dotted(<<d1, d0, d0>>), <<<<"0", "1">>>>, <<>>),
     WithTags(Dotted(<<d1, d0, d0>>), <<Dotted(<<beta, <<"0", "2">>, d1>>)>>, <<>>),
     <<" ">> \o Dotted(<<d1, d0, d0>>), Dotted(<<d1, d0, d0>>) \o <<" ">>}

StrInputs == ShortStrings \cup BuiltStrings \cup TestValid \cup TestInvalid

\* the versions that are compared with one another
CmpCores ==
    {Dotted(<<d9, d9, d9>>), Dotted(<<d10, d9, d9>>),
     Dotted(<<d10, d10, d9>>), Dotted(<<d10, d10, d10>>)}
CmpPreIdents == {d2, d10, <<"1", "a">>, <<"-">>}
CmpBuilds == {<<<<"b">>>>, <<<<"a", "-", "b">>>>}
CmpValid ==
    {WithTags(c[1], c[2], <<>>) : c \in CmpCores \X Tags(CmpPreIdents, MaxCmpIds)}
    \cup {WithTags(Dotted(<<d10, d9, d9>>), c[1], c[2]) :
              c \in Tags(CmpPreIdents, MaxCmpIds) \X CmpBuilds}
CmpInvalid ==
    {<<>>, Dotted(<<d1, d9>>), Dotted(<<<<"5">>, <<"4">>, d2, d10>>),
     Dotted(<<d1, d2, <<"3", "b">>>>), Dotted(<<d1, <<"0", "9">>, d0>>)}

\* ver and prereleaseVersions of TestIsNewer, in increasing precedence
ver == Dotted(<<d3, d1, d2>>)
prereleaseVersions ==
    <<WithTags(ver, <<alpha>>, <<>>),
      WithTags(ver, <<Dotted(<<alpha, d1>>)>>, <<>>),
      WithTags(ver, <<Dotted(<<alpha, beta>>)>>, <<>>),
      WithTags(ver, <<beta>>, <<>>),
      WithTags(ver, <<Dotted(<<beta, d2>>)>>, <<>>),
      WithTags(ver, <<Dotted(<<beta, <<"1", "1">>>>)>>, <<>>),
      WithTags(ver, <<Dotted(<<<<"r", "c">>, d1>>)>>, <<>>)>>

\* further pre-releases of ver with numeric identifiers of equal length, and
\* with an equal numeric identifier before the one that differs
CmpNumeric ==
    {WithTags(ver, <<Dotted(<<beta, <<"1", "2">>>>)>>, <<>>),
     WithTags(ver, <<Dotted(<<beta, d3>>)>>, <<>>),
     WithTags(ver, <<Dotted(<<d2, d10>>)>>, <<>>),
     WithTags(ver, <<Dotted(<<d2, d9>>)>>, <<>>)}

CmpTests == {ver} \cup {prereleaseVersions[i] : i \in 1..Len(prereleaseVersions)} \cup CmpNumeric

CmpVersions == CmpValid \cup CmpTests

CmpInputs == CmpVersions \cup CmpInvalid

Bumps == {<<"m", "a", "j", "o", "r">>, <<"m", "i", "n", "o", "r">>, <<"p", "a", "t", "c", "h">>}

----------------------------------------------------------------------------
(* The calls                                                               *)

NoSemver == Semver(<<>>, <<>>, <<>>, <<>>, <<>>)

Cleared ==
    /\ pc = "start"
    /\ fault = FALSE
    /\ valid = FALSE
    /\ va = NoSemver
    /\ vb = NoSemver
    /\ text = <<>>
    /\ bump = <<>>
    /\ incr = <<>>
    /\ newer = FALSE
    /\ older = FALSE
    /\ equiv = FALSE
    /\ isnewer = FALSE

\* one string, one call after another
InitStr == check \in StrInputs /\ base = <<>> /\ Cleared

\* two strings to compare
Init == check \in CmpInputs /\ base \in CmpInputs /\ Cleared

\* valid := IsValid(check)
DoIsValid ==
    /\ pc = "start"
    /\ valid' = IsValid(check)
    /\ pc' = "IsValid"
    /\ UNCHANGED <<check, base, fault, va, vb, text, bump, incr, newer, older, equiv, isnewer>>

\* va := ConStructor(check)
DoConStructor ==
    /\ pc = "IsValid"
    /\ va' = ConStructor(check)
    /\ fault' = va'.panic
    /\ pc' = "ConStructor"
    /\ UNCHANGED <<check, base, valid, vb, text, bump, incr, newer, older, equiv, isnewer>>

\* text := va.ConvertToString()
DoConvertToString ==
    /\ pc = "ConStructor"
    /\ ~fault
    /\ text' = ConvertToString(va)
    /\ pc' = "ConvertToString"
    /\ UNCHANGED <<check, base, fault, valid, va, vb, bump, incr, newer, older, equiv, isnewer>>

\* va := conStructor(check), the constructor of revision 0.1.0
DoconStructor ==
    /\ pc = "start"
    /\ va' = conStructor(check)
    /\ fault' = va'.panic
    /\ pc' = "conStructor"
    /\ UNCHANGED <<check, base, valid, vb, text, bump, incr, newer, older, equiv, isnewer>>

\* incr := Increment(check, field)
DoIncrement ==
    /\ pc = "start"
    /\ \E field \in Bumps :
          /\ bump' = field
          /\ incr' = Increment(check, field)
    /\ pc' = "Increment"
    /\ UNCHANGED <<check, base, fault, valid, va, vb, text, newer, older, equiv, isnewer>>

\* va := ConStructor(check); vb := ConStructor(base)     (as TestComparisons does)
DoConStructors ==
    /\ pc = "start"
    /\ va' = ConStructor(check)
    /\ vb' = ConStructor(base)
    /\ fault' = (va'.panic \/ vb'.panic)
    /\ pc' = "ConStructors"
    /\ UNCHANGED <<check, base, valid, text, bump, incr, newer, older, equiv, isnewer>>

\* newer := va.NewerThan(vb)
DoNewerThan ==
    /\ pc = "ConStructors"
    /\ ~fault
    /\ newer' = NewerThan(va, vb)
    /\ pc' = "NewerThan"
    /\ UNCHANGED <<check, base, fault, valid, va, vb, text, bump, incr, older, equiv, isnewer>>

\* older := va.OlderThan(vb)
DoOlderThan ==
    /\ pc = "NewerThan"
    /\ older' = OlderThan(va, vb)
    /\ pc' = "OlderThan"
    /\ UNCHANGED <<check, base, fault, valid, va, vb, text, bump, incr, newer, equiv, isnewer>>

\* equiv := va.EquivalentTo(vb)
DoEquivalentTo ==
    /\ pc = "OlderThan"
    /\ equiv' = EquivalentTo(va, vb)
    /\ pc' = "compared"
    /\ UNCHANGED <<check, base, fault, valid, va, vb, text, bump, incr, newer, older, isnewer>>

\* isnewer := IsNewer(check, base)
DoIsNewer ==
    /\ pc = "start"
    /\ LET r == IsNewer(check, base)
       IN  /\ isnewer' = r.ret
           /\ fault' = r.panic
    /\ pc' = "IsNewer"
    /\ UNCHANGED <<check, base, valid, va, vb, text, bump, incr, newer, older, equiv>>

NextStr ==
    \/ DoIsValid
    \/ DoConStructor
    \/ DoConvertToString
    \/ DoconStructor
    \/ DoIncrement

Next ==
    \/ DoConStructors
    \/ DoNewerThan
    \/ DoOlderThan
    \/ DoEquivalentTo
    \/ DoIsNewer

SpecStr == InitStr /\ [][NextStr]_vars

Spec == Init /\ [][Next]_vars

----------------------------------------------------------------------------
(* Properties of validation and of construction (checked under SpecStr)    *)

\* C1: IsValid(s) is true exactly when the whole of s matches the SemVer 2.0.0
\* grammar, and every member of the tests' invalid set is rejected.
C1_IsValidIffGrammar ==
    pc = "IsValid" =>
        /\ valid = SemVerGrammar(check)
        /\ (check \in invalidVersions => valid = FALSE)

C1_Witness ==
    /\ pc = "IsValid"
    /\ valid
    /\ Index(check, "-") > -1
    /\ Index(check, "+") > Index(check, "-")

\* the text between the "-" that follows a core of i characters and the build tag
PreAfter(s, i) ==
    LET rest == Slice(s, i + 2, Len(s))
        p == Index(rest, "+")
    IN  IF p = -1 THEN rest ELSE Slice(rest, 1, p)

LeadingZeroNumber(f) == Len(f) > 1 /\ AllIn(f, Digit) /\ f[1] = "0"

\* C2: after a valid major.minor.patch, a pre-release with a purely numeric
\* identifier that has a leading zero is rejected; a pre-release identifier that
\* starts with 0 and has a non-digit is accepted; a purely numeric build
\* identifier with leading zeros is accepted.
C2_LeadingZeros ==
    pc = "IsValid" =>
        \A i \in 1..(Len(check) - 1) :
            CoreText(Slice(check, 1, i)) =>
                LET id == Slice(check, i + 2, Len(check))
                    rel == PreAfter(check, i)
                IN  /\ (/\ check[i + 1] = "-"
                        /\ \E pq \in Stretches(rel) :
                              LeadingZeroNumber(Slice(rel, pq[1], pq[2])))
                       => valid = FALSE
                    /\ (/\ check[i + 1] = "-"
                        /\ Len(id) > 0
                        /\ id[1] = "0"
                        /\ AllIn(id, AlnumHyphen)
                        /\ ~AllIn(id, Digit))
                       => valid = TRUE
                    /\ (check[i + 1] = "+" /\ LeadingZeroNumber(id)) => valid = TRUE

C2_Witness ==
    /\ pc = "IsValid"
    /\ valid
    /\ check = WithTags(Dotted(<<d1, d2, d3>>), <<<<"0", "1", "a">>>>, <<>>)

\* C3: for every s that IsValid accepts, ConStructor(s) returns and
\* ConStructor(s).ConvertToString() is s, character for character.
C3_RoundTrip ==
    /\ (pc = "ConStructor" /\ valid) => ~fault
    /\ (pc = "ConvertToString" /\ valid) => text = check

C3_Witness ==
    /\ pc = "ConvertToString"
    /\ valid
    /\ text = check
    /\ Index(va.pre, "-") > -1
    /\ Index(va.build, "-") > -1

MinOf(S) == CHOOSE x \in S : \A y \in S : x <= y

\* where the build tag, the pre-release tag and the two dots of s are
PlusAt(s) ==
    LET P == {i \in 1..Len(s) : s[i] = "+"}
    IN  IF P = {} THEN Len(s) + 1 ELSE MinOf(P)
HyphenAt(s) ==
    LET H == {i \in 1..(PlusAt(s) - 1) : s[i] = "-"}
    IN  IF H = {} THEN PlusAt(s) ELSE MinOf(H)
DotsOf(s) == {i \in 1..(HyphenAt(s) - 1) : s[i] = "."}

\* C4: for every valid s, ConStructor(s) returns without a slice failure; major,
\* minor and patch are the three dot-separated fields, build is all that
\* follows the first "+", pre is what lies between the first "-" before the "+"
\* and the "+"; a "-" only inside the build makes no pre-release.
C4_ConStructorFields ==
    (pc = "ConStructor" /\ valid) =>
        /\ ~fault
        /\ Cardinality(DotsOf(check)) = 2
        /\ \E p \in DotsOf(check) : \E q \in DotsOf(check) :
              /\ p < q
              /\ va.major = Slice(check, 1, p - 1)
              /\ va.minor = Slice(check, p + 1, q - 1)
              /\ va.patch = Slice(check, q + 1, HyphenAt(check) - 1)
        /\ va.pre = Slice(check, HyphenAt(check) + 1, PlusAt(check) - 1)
        /\ va.build = Slice(check, PlusAt(check) + 1, Len(check))
        /\ (HyphenAt(check) = PlusAt(check) => va.pre = <<>>)
        /\ (PlusAt(check) > Len(check) => va.build = <<>>)

C4_Witness ==
    /\ pc = "ConStructor"
    /\ valid
    /\ ~fault
    /\ va.pre = <<>>
    /\ Index(va.build, "-") > -1

----------------------------------------------------------------------------
(* Properties of precedence (checked under Spec) and of Increment          *)

\* the number a string of digits writes, and the digits that write a number
RECURSIVE NumVal(_)
NumVal(f) ==
    IF f = <<>> THEN 0
    ELSE 10 * NumVal(SubSeq(f, 1, Len(f) - 1)) + (Ord(f[Len(f)]) - Ord("0"))

RECURSIVE NumStr(_)
NumStr(n) ==
    IF n < 10 THEN <<AsciiOrder[Ord("0") + n]>>
    ELSE NumStr(n \div 10) \o <<AsciiOrder[Ord("0") + (n % 10)]>>

BothValid == SemVerGrammar(check) /\ SemVerGrammar(base)

SameCore == va.major = vb.major /\ va.minor = vb.minor /\ va.patch = vb.patch

\* C5: major, minor and patch are compared as numbers: the version with the
\* larger major is newer and not older (and IsNewer says so), whatever the
\* digit counts; so for minor with equal majors, and patch with equal major
\* and minor.
C5_NumericCore ==
    LET M == NumVal(va.major) > NumVal(vb.major)
        N == va.major = vb.major /\ NumVal(va.minor) > NumVal(vb.minor)
        T == va.major = vb.major /\ va.minor = vb.minor /\ NumVal(va.patch) > NumVal(vb.patch)
    IN  /\ (pc = "compared" /\ BothValid /\ (M \/ N \/ T)) => (newer /\ ~older)
        /\ (/\ pc = "IsNewer"
            /\ BothValid
            /\ LET x == ConStructor(check)
                   y == ConStructor(base)
               IN  NumVal(x.major) > NumVal(y.major))
           => isnewer

\* C6: with equal major, minor and patch, a version with a pre-release is of
\* lower precedence than one without: it is older, not newer, not equivalent,
\* and the one without is newer.
C6_PreReleaseBelowRelease ==
    /\ (pc = "compared" /\ BothValid /\ SameCore /\ va.pre # <<>> /\ vb.pre = <<>>)
       => (~newer /\ older /\ ~equiv)
    /\ (pc = "compared" /\ BothValid /\ SameCore /\ va.pre = <<>> /\ vb.pre # <<>>)
       => newer

\* the first position at which two identifier lists both have an identifier
\* and the identifiers differ (0 when there is none)
FirstDifference(ed, gy) ==
    LET D == {k \in 1..Len(ed) : k <= Len(gy) /\ ed[k] # gy[k]
                                  /\ \A j \in 1..(k - 1) : ed[j] = gy[j]}
    IN  IF D = {} THEN 0 ELSE MinOf(D)

NumericIdent(f) == Len(f) >= 1 /\ AllIn(f, Digit)

\* C7: with equal major, minor and patch, when the pre-releases first differ at
\* a position where one identifier is purely numeric and the other is
\* alphanumeric, the version with the numeric identifier is of lower
\* precedence: it is not newer, and the other is newer.
C7_NumericBelowAlphanumeric ==
    (pc = "compared" /\ BothValid /\ SameCore /\ va.pre # <<>> /\ vb.pre # <<>>) =>
        LET ed == Split(va.pre, ".")
            gy == Split(vb.pre, ".")
            k == FirstDifference(ed, gy)
        IN  k > 0 =>
                /\ (NumericIdent(ed[k]) /\ ~NumericIdent(gy[k])) => ~newer
                /\ (~NumericIdent(ed[k]) /\ NumericIdent(gy[k])) => newer

\* s without its build tag
StripBuild(s) == Slice(s, 1, PlusAt(s) - 1)

\* C8: versions that differ only in build metadata have the same precedence:
\* they are equivalent, neither is newer or older than the other, and each
\* compares with every third version as the other does.
C8_BuildIgnored ==
    (pc = "compared" /\ BothValid /\ StripBuild(check) = StripBuild(base)) =>
        /\ equiv
        /\ ~newer
        /\ ~older
        /\ \A c \in CmpValid :
              LET vc == ConStructor(c)
              IN  /\ NewerThan(va, vc) = NewerThan(vb, vc)
                  /\ NewerThan(vc, va) = NewerThan(vc, vb)
                  /\ OlderThan(va, vc) = OlderThan(vb, vc)
                  /\ OlderThan(vc, va) = OlderThan(vc, vb)

C8_Witness ==
    /\ pc = "compared"
    /\ BothValid
    /\ StripBuild(check) = StripBuild(base)
    /\ va.build # <<>>
    /\ vb.build # <<>>
    /\ va.build # vb.build
    /\ va.pre # <<>>
    /\ equiv

\* the text Increment is to return
Bumped(s, field) ==
    LET v == ConStructor(s)
        maj == NumVal(v.major)
        min == NumVal(v.minor)
        pat == NumVal(v.patch)
    IN  IF field = <<"m", "a", "j", "o", "r">>
        THEN Dotted(<<NumStr(maj + 1), d0, d0>>)
        ELSE IF field = <<"m", "i", "n", "o", "r">>
        THEN Dotted(<<NumStr(maj), NumStr(min + 1), d0>>)
        ELSE Dotted(<<NumStr(maj), NumStr(min), NumStr(pat + 1)>>)

\* C9: Increment on a valid version returns the bumped version as text: patch+1;
\* minor+1 with patch 0; major+1 with minor and patch 0; pre-release and build
\* dropped ("1.3.9" bumped at patch is "1.3.10").
C9_Increment ==
    (pc = "Increment" /\ SemVerGrammar(check)) => incr = Bumped(check, bump)

\* C10: IsNewer returns false whenever check or base is not valid, and never
\* ends in a slice failure.
C10_IsNewerInvalid ==
    pc = "IsNewer" =>
        /\ ~fault
        /\ (~BothValid => isnewer = FALSE)

C10_Witness ==
    /\ pc = "IsNewer"
    /\ SemVerGrammar(check)
    /\ base = Dotted(<<d1, d9>>)
    /\ ~isnewer
    /\ ~fault

----------------------------------------------------------------------------
(* Construction from text that is not a version (checked under SpecStr)    *)

\* the call of ConStructor came back with a Semver
ReturnedSemver == pc = "ConStructor" /\ ~fault

\* the call of ConStructor ended in a slice bound out of range
SliceFault == pc = "ConStructor" /\ fault

\* C11: ConStructor on a string that is not a valid version yields no Semver,
\* populated or not, and does not end in an out-of-range fault: it reports a
\* failure to its caller.
C11_InvalidNotConstructed ==
    (pc = "ConStructor" /\ ~SemVerGrammar(check)) => (~ReturnedSemver /\ ~SliceFault)

----------------------------------------------------------------------------
(* Precedence as an order (checked under Spec)                             *)

\* C12: NewerThan is a strict order on valid versions: no version is newer than
\* itself, two versions are never each newer than the other, and newer than a
\* version that is newer than a third is newer than the third (no cycle), also
\* among pre-releases with numeric and alphanumeric identifiers.
C12_StrictOrder ==
    (pc = "compared" /\ BothValid) =>
        /\ (check = base => ~newer)
        /\ (newer => ~NewerThan(vb, va))
        /\ \A c \in CmpVersions :
              (newer /\ NewerThan(vb, ConStructor(c))) => NewerThan(va, ConStructor(c))

\* C13: of a.NewerThan(b), a.OlderThan(b) and a.EquivalentTo(b) exactly one is
\* true, a.NewerThan(b) is b.OlderThan(a), and a.EquivalentTo(b) is
\* b.EquivalentTo(a).
C13_Trichotomy ==
    (pc = "compared" /\ BothValid) =>
        /\ (newer \/ older \/ equiv)
        /\ ~(newer /\ older)
        /\ ~(newer /\ equiv)
        /\ ~(older /\ equiv)
        /\ newer = OlderThan(vb, va)
        /\ equiv = EquivalentTo(vb, va)

\* C14: a.EquivalentTo(b) is true exactly when major, minor and patch are equal
\* and the pre-release identifiers are the same in the same order (or both
\* absent).
C14_EquivalentIffSame ==
    (pc = "compared" /\ BothValid) =>
        equiv = (SameCore /\ Split(va.pre, ".") = Split(vb.pre, "."))

BothPre == va.pre # <<>> /\ vb.pre # <<>>

\* C15: with equal major, minor and patch, when the pre-releases first differ at
\* a position where both identifiers are purely numeric, a is newer exactly
\* when its identifier is the larger integer; equal numeric identifiers before
\* that position decide nothing.
C15_NumericIdentifiers ==
    (pc = "compared" /\ BothValid /\ SameCore /\ BothPre) =>
        LET ed == Split(va.pre, ".")
            gy == Split(vb.pre, ".")
            k == FirstDifference(ed, gy)
        IN  (k > 0 /\ NumericIdent(ed[k]) /\ NumericIdent(gy[k])) =>
                newer = (NumVal(ed[k]) > NumVal(gy[k]))

\* "11" against "2": the longer number is the larger
C15_Witness ==
    /\ pc = "compared"
    /\ check = prereleaseVersions[6]
    /\ base = prereleaseVersions[5]
    /\ newer

\* ed continues gy: gy's identifiers, then more
StrictPrefix(gy, ed) == Len(gy) < Len(ed) /\ SubSeq(ed, 1, Len(gy)) = gy

\* C16: with equal major, minor and patch, a pre-release whose identifiers
\* continue the other's is newer, and the other is not newer; and IsNewer
\* reports each version of alpha < alpha.1 < alpha.beta < beta < beta.2 <
\* beta.11 < rc.1 < (release) newer than the one before it.
C16_LongerPreReleaseNewer ==
    /\ (pc = "compared" /\ BothValid /\ SameCore /\ BothPre) =>
          /\ StrictPrefix(Split(vb.pre, "."), Split(va.pre, ".")) => newer
          /\ StrictPrefix(Split(va.pre, "."), Split(vb.pre, ".")) => ~newer
    /\ pc = "IsNewer" =>
          /\ \A i \in 1..(Len(prereleaseVersions) - 1) :
                (check = prereleaseVersions[i + 1] /\ base = prereleaseVersions[i]) => isnewer
          /\ (check = ver /\ base = prereleaseVersions[Len(prereleaseVersions)]) => isnewer

\* "beta.2" against "beta"
C16_Witness ==
    /\ pc = "compared"
    /\ check = prereleaseVersions[5]
    /\ base = prereleaseVersions[4]
    /\ StrictPrefix(Split(vb.pre, "."), Split(va.pre, "."))
    /\ newer

====
